---- MODULE Spec2Model ----
(***************************************************************************)
(* Model of src/app.py: a Flask application with two routes.  GET / is     *)
(* answered by index(); POST /predict is answered by predict(), which      *)
(* parses the JSON body, binds it by keyword to iris_prediction(), which   *)
(* opens and unpickles "model.pkl", builds the 2D matrix X, calls          *)
(* model.predict(X) and returns {"predicted_class": int(predictions[0])}.  *)
(*                                                                         *)
(* A request handler runs on a worker of the HTTP layer.  Its steps are    *)
(* the points where it touches the file system or may raise:               *)
(*   predict        request.get_json() and the ** binding   (lines 41-46)  *)
(*   open_model     open("model.pkl", "rb")                 (line 20)      *)
(*   joblib_load    joblib.load(f) and the exit of `with`   (lines 20-21)  *)
(*   model_predict  X, model.predict, int, json.dumps       (lines 24-49)  *)
(*   finish         the response is sent, the locals are dropped           *)
(* The artifact file belongs to the environment, which may deploy, break   *)
(* or remove it at any moment (write_artifact).                            *)
(***************************************************************************)
EXTENDS Integers, Sequences, FiniteSets, TLC

VARIABLES
    disk,     \* content of "model.pkl": "absent", "corrupt" or a predictor id
    pc,       \* per worker: "idle", "open", "load", "predict", "done"
    req,      \* per worker: the request being handled
    args,     \* per worker: the keyword arguments bound to iris_prediction
    f,        \* per worker: the file handle of the `with` block
    model,    \* per worker: the local variable `model`
    resp,     \* per worker: the response of the request
    opens,    \* per worker: open() calls made by the current request
    loads,    \* per worker: joblib.load() calls made by the current request
    seen,     \* per worker: what open() found on disk (history)
    last,     \* predictor used by the most recently completed predict request (history)
    flask     \* the installed Flask: "legacy" (before 2.1) or "current"

vars == <<disk, pc, req, args, f, model, resp, opens, loads, seen, last, flask>>

\* ------------------------------------------------------------------ bounds
NumWorkers == 2
MaxNum == 2

Workers == 1..NumWorkers
Nums == 1..MaxNum

\* ------------------------------------------------------------ JSON values
Num(n) == [t |-> "num", v |-> n, o |-> <<>>]
Null == [t |-> "null", v |-> 0, o |-> <<>>]
Str == [t |-> "str", v |-> 0, o |-> <<>>]
Arr == [t |-> "arr", v |-> 0, o |-> <<>>]
Obj(pairs) == [t |-> "obj", v |-> 0, o |-> pairs]

Numeric(x) == x.t = "num"

\* the parameters of iris_prediction, in the order of its signature
Params == <<"sepal_length", "sepal_width", "petal_length", "petal_width">>
ParamSet == {Params[i] : i \in 1..Len(Params)}
ExtraKey == "species"
AllKeys == ParamSet \cup {ExtraKey}

\* ---------------------------------------------------------- request bodies
NoBody == [kind |-> "none", doc |-> Null]
NotJson == [kind |-> "notjson", doc |-> Null]
Invalid == [kind |-> "invalid", doc |-> Null]
Json(doc) == [kind |-> "json", doc |-> doc]

Perms(S) ==
    {s \in [1..Cardinality(S) -> S] : \A i, j \in 1..Cardinality(S) : i # j => s[i] # s[j]}

KeySeqs == UNION {Perms(S) : S \in SUBSET AllKeys}

Values == {Num(n) : n \in Nums} \cup {Null, Str}

\* field values of the request objects: the unknown field holds a string, at
\* most one named field holds null instead of a number
FieldVals ==
    {v \in [AllKeys -> Values] :
        /\ v[ExtraKey] = Str
        /\ \A k \in ParamSet : v[k] # Str
        /\ Cardinality({k \in ParamSet : ~Numeric(v[k])}) <= 1}

PairsOf(ks, v) == [i \in 1..Len(ks) |-> <<ks[i], v[ks[i]]>>]

\* objects of distinct keys, in every order of the keys
ObjectBodies == {Json(Obj(PairsOf(ks, v))) : ks \in KeySeqs, v \in FieldVals}

\* a body that repeats a key: json keeps the last value of a repeated key
DupBody ==
    Json(Obj(<< <<"sepal_length", Num(1)>>, <<"sepal_width", Num(1)>>,
                <<"petal_length", Num(1)>>, <<"petal_width", Num(1)>>,
                <<"sepal_length", Num(MaxNum)>> >>))

Bodies ==
    ObjectBodies \cup {NoBody, NotJson, Invalid, Json(Null), Json(Arr), Json(Num(1)), DupBody}

\* the requests of the threaded specification: one body of each shape
CanonBody(a, b, c, d) ==
    Json(Obj(<< <<"sepal_length", a>>, <<"sepal_width", b>>,
                <<"petal_length", c>>, <<"petal_width", d>> >>))

ThreadedBodies ==
    { Json(Obj(<< <<"petal_width", Num(1)>>, <<"petal_length", Num(1)>>,
                  <<"sepal_width", Num(MaxNum)>>, <<"sepal_length", Num(1)>> >>)),
      CanonBody(Num(1), Null, Num(1), Num(1)),
      Json(Obj(<< <<"sepal_length", Num(1)>>, <<"sepal_width", Num(1)>>,
                  <<"petal_length", Num(1)>> >>)),
      NotJson }

\* GET / is sent without a body, or with any body at all
IndexBodies == {NoBody, CanonBody(Num(1), Num(1), Num(1), Num(1))}

\* ------------------------------------------------- Python values and calls
Returned(val) == [exc |-> "none", val |-> val]
Raised(exc) == [exc |-> exc, val |-> [t |-> "None", d |-> <<>>]]

PyNone == [t |-> "None", d |-> <<>>]
PyList == [t |-> "list", d |-> <<>>]
PyNumber == [t |-> "number", d |-> <<>>]
PyDict(d) == [t |-> "dict", d |-> d]

\* json.loads of an object: a dict holding, for each key, the value of its last pair
LastIndex(pairs, k) ==
    CHOOSE i \in 1..Len(pairs) :
        /\ pairs[i][1] = k
        /\ \A j \in (i + 1)..Len(pairs) : pairs[j][1] # k

json_loads(doc) ==
    CASE doc.t = "obj" ->
            PyDict([k \in {doc.o[i][1] : i \in 1..Len(doc.o)} |->
                        doc.o[LastIndex(doc.o, k)][2]])
      [] doc.t = "null" -> PyNone
      [] doc.t = "arr" -> PyList
      [] OTHER -> PyNumber

\* request.get_json(): a request without a body, or with one not sent as JSON,
\* yields None on a legacy Flask and aborts the request on a current one; a body
\* that does not parse aborts the request.
get_json(body) ==
    CASE body.kind \in {"none", "notjson"} ->
            IF flask = "legacy" THEN Returned(PyNone) ELSE Raised("UnsupportedMediaType")
      [] body.kind = "json" -> Returned(json_loads(body.doc))
      [] OTHER -> Raised("BadRequest")

\* iris_prediction(**request_json): the call binds the dict's items by name to the
\* four parameters; a name without an item and an item without a name are TypeErrors
Missing(d) == {k \in ParamSet : k \notin DOMAIN d}
\* (mutant) a signature ending in **kwargs: unknown items are accepted
Unexpected_ignored(d) == {}
Unexpected(d) == {k \in DOMAIN d : k \notin ParamSet}

Bind(val) ==
    IF val.t # "dict" THEN Raised("TypeError")
    ELSE IF Missing(val.d) # {} \/ Unexpected(val.d) # {} THEN Raised("TypeError")
    ELSE Returned([k \in ParamSet |-> val.d[k]])

\* (mutant) the row is built with two fields exchanged
X_swapped(a) ==
    << <<a["sepal_length"], a["petal_length"], a["sepal_width"], a["petal_width"]>> >>

\* X = [[sepal_length, sepal_width, petal_length, petal_width]]
X(a) == << <<a["sepal_length"], a["sepal_width"], a["petal_length"], a["petal_width"]>> >>

\* ------------------------------------------------------------ the artifact
\* The unpickled object is opaque to app.py.  Two predictors stand for the
\* artifacts that can be deployed: each maps a row of numbers to an integer
\* label that depends on every position of the row; given a value that is not
\* a number, "p1" raises and "p2" treats it as a missing value.
PredictorIds == {"p1", "p2"}
Predictor(id) ==
    IF id = "p1" THEN [coef |-> <<1, 2, 3, 4>>, nan_ok |-> FALSE]
    ELSE [coef |-> <<4, 3, 1, 2>>, nan_ok |-> TRUE]

DiskStates == {"absent", "corrupt"} \cup PredictorIds

NpInt(n) == [t |-> "np.int64", v |-> n]

RECURSIVE Dot(_, _, _)
Dot(coef, row, i) ==
    IF i > Len(row) THEN 0
    ELSE coef[i] * (IF Numeric(row[i]) THEN row[i].v ELSE 0) + Dot(coef, row, i + 1)

\* model.predict(X): one label per row of the batch, or ValueError
model_predict_call(id, batch) ==
    LET p == Predictor(id) IN
    IF ~p.nan_ok /\ \E r \in 1..Len(batch) : \E i \in 1..Len(batch[r]) : ~Numeric(batch[r][i])
    THEN Raised("ValueError")
    ELSE Returned([r \in 1..Len(batch) |-> NpInt(Dot(p.coef, batch[r], 1))])

\* int(predictions[0])
int(x) == Num(x.v)

\* json.dumps of the dict {"predicted_class": prediction}
json_dumps(prediction) == Obj(<< <<"predicted_class", prediction>> >>)

\* --------------------------------------------------------------- responses
NoResp == [status |-> 0, error |-> "none", text |-> "", json |-> Null]
Text200(s) == [status |-> 200, error |-> "none", text |-> s, json |-> Null]
Json200(doc) == [status |-> 200, error |-> "none", text |-> "", json |-> doc]

\* Flask answers an HTTP exception with its code and any other exception with 500
StatusOf(exc) ==
    CASE exc = "BadRequest" -> 400
      [] exc = "UnsupportedMediaType" -> 415
      [] OTHER -> 500
Failure(exc) == [status |-> StatusOf(exc), error |-> exc, text |-> "", json |-> Null]

\* ------------------------------------------------------------------- state
NoReq == [route |-> "", body |-> NoBody]
NoArgs == [k \in {} |-> Null]

Init ==
    /\ disk \in DiskStates
    /\ pc = [w \in Workers |-> "idle"]
    /\ req = [w \in Workers |-> NoReq]
    /\ args = [w \in Workers |-> NoArgs]
    /\ f = [w \in Workers |-> "closed"]
    /\ model = [w \in Workers |-> "none"]
    /\ resp = [w \in Workers |-> NoResp]
    /\ opens = [w \in Workers |-> 0]
    /\ loads = [w \in Workers |-> 0]
    /\ seen = [w \in Workers |-> "untouched"]
    /\ last = "none"
    /\ flask \in {"legacy", "current"}

\* the handler of worker w ends with response r
Complete(w, r) ==
    /\ pc' = [pc EXCEPT ![w] = "done"]
    /\ resp' = [resp EXCEPT ![w] = r]

\* ----------------------------------------------------------------- actions
\* (mutant) a health check that looks for the artifact
index_needs_model(w, body) ==
    /\ pc[w] = "idle"
    /\ req' = [req EXCEPT ![w] = [route |-> "/", body |-> body]]
    /\ Complete(w, IF disk = "absent" THEN Failure("FileNotFoundError")
                   ELSE Text200("Hello, world!"))
    /\ UNCHANGED <<disk, args, f, model, opens, loads, seen, last, flask>>

\* GET /
index(w, body) ==
    /\ pc[w] = "idle"
    /\ req' = [req EXCEPT ![w] = [route |-> "/", body |-> body]]
    /\ Complete(w, Text200("Hello, world!"))
    /\ UNCHANGED <<disk, args, f, model, opens, loads, seen, last, flask>>

\* (mutant) the artifact is opened before the body is looked at
predict_open_first(w, body) ==
    /\ pc[w] = "idle"
    /\ req' = [req EXCEPT ![w] = [route |-> "/predict", body |-> body]]
    /\ opens' = [opens EXCEPT ![w] = @ + 1]
    /\ seen' = [seen EXCEPT ![w] = disk]
    /\ LET request_json == get_json(body)
           bound == IF request_json.exc # "none" THEN request_json
                    ELSE Bind(request_json.val)
       IN  IF disk = "absent" \/ bound.exc # "none"
           THEN /\ Complete(w, Failure(IF disk = "absent" THEN "FileNotFoundError"
                                       ELSE bound.exc))
                /\ last' = "fail"
                /\ UNCHANGED <<args, f>>
           ELSE /\ args' = [args EXCEPT ![w] = bound.val]
                /\ f' = [f EXCEPT ![w] = disk]
                /\ pc' = [pc EXCEPT ![w] = "load"]
                /\ UNCHANGED <<resp, last>>
    /\ UNCHANGED <<disk, model, loads, flask>>

\* POST /predict, up to the call of iris_prediction
predict(w, body) ==
    /\ pc[w] = "idle"
    /\ req' = [req EXCEPT ![w] = [route |-> "/predict", body |-> body]]
    /\ LET request_json == get_json(body)
           bound == IF request_json.exc # "none" THEN request_json
                    ELSE Bind(request_json.val)
       IN  IF bound.exc # "none"
           THEN /\ Complete(w, Failure(bound.exc))
                /\ last' = "fail"
                /\ UNCHANGED args
           ELSE /\ args' = [args EXCEPT ![w] = bound.val]
                /\ pc' = [pc EXCEPT ![w] = "open"]
                /\ UNCHANGED <<resp, last>>
    /\ UNCHANGED <<disk, f, model, opens, loads, seen, flask>>

\* (mutant) a missing file is replaced by a built-in default predictor
open_model_fallback(w) ==
    /\ pc[w] = "open"
    /\ opens' = [opens EXCEPT ![w] = @ + 1]
    /\ seen' = [seen EXCEPT ![w] = disk]
    /\ f' = [f EXCEPT ![w] = IF disk = "absent" THEN "p1" ELSE disk]
    /\ pc' = [pc EXCEPT ![w] = "load"]
    /\ UNCHANGED <<disk, req, args, model, resp, loads, last, flask>>

\* open("model.pkl", "rb")
open_model(w) ==
    /\ pc[w] = "open"
    /\ opens' = [opens EXCEPT ![w] = @ + 1]
    /\ seen' = [seen EXCEPT ![w] = disk]
    /\ IF disk = "absent"
       THEN /\ Complete(w, Failure("FileNotFoundError"))
            /\ last' = "fail"
            /\ UNCHANGED f
       ELSE /\ f' = [f EXCEPT ![w] = disk]
            /\ pc' = [pc EXCEPT ![w] = "load"]
            /\ UNCHANGED <<resp, last>>
    /\ UNCHANGED <<disk, req, args, model, loads, flask>>

\* (mutant) a process-wide cache: the predictor of the last successful
\* request is used again instead of the file's
joblib_load_cached(w) ==
    /\ pc[w] = "load"
    /\ loads' = [loads EXCEPT ![w] = @ + 1]
    /\ f' = [f EXCEPT ![w] = "closed"]
    /\ IF f[w] = "corrupt" /\ last \notin PredictorIds
       THEN /\ Complete(w, Failure("UnpicklingError"))
            /\ last' = "fail"
            /\ UNCHANGED model
       ELSE /\ model' = [model EXCEPT ![w] = IF last \in PredictorIds THEN last ELSE f[w]]
            /\ pc' = [pc EXCEPT ![w] = "predict"]
            /\ UNCHANGED <<resp, last>>
    /\ UNCHANGED <<disk, req, args, opens, seen, flask>>

\* (mutant) open() without `with`: f.close() follows joblib.load and is skipped
\* when joblib.load raises
joblib_load_leak(w) ==
    /\ pc[w] = "load"
    /\ loads' = [loads EXCEPT ![w] = @ + 1]
    /\ IF f[w] = "corrupt"
       THEN /\ Complete(w, Failure("UnpicklingError"))
            /\ last' = "fail"
            /\ UNCHANGED <<model, f>>
       ELSE /\ model' = [model EXCEPT ![w] = f[w]]
            /\ f' = [f EXCEPT ![w] = "closed"]
            /\ pc' = [pc EXCEPT ![w] = "predict"]
            /\ UNCHANGED <<resp, last>>
    /\ UNCHANGED <<disk, req, args, opens, seen, flask>>

\* model = joblib.load(f), and the exit of the `with` block, which closes f
joblib_load(w) ==
    /\ pc[w] = "load"
    /\ loads' = [loads EXCEPT ![w] = @ + 1]
    /\ f' = [f EXCEPT ![w] = "closed"]
    /\ IF f[w] = "corrupt"
       THEN /\ Complete(w, Failure("UnpicklingError"))
            /\ last' = "fail"
            /\ UNCHANGED model
       ELSE /\ model' = [model EXCEPT ![w] = f[w]]
            /\ pc' = [pc EXCEPT ![w] = "predict"]
            /\ UNCHANGED <<resp, last>>
    /\ UNCHANGED <<disk, req, args, opens, seen, flask>>

\* (mutant) X is a module-level global: the row of whichever request bound its
\* arguments is the one predicted
model_predict_global(w) ==
    /\ pc[w] = "predict"
    /\ LET v == CHOOSE u \in Workers : pc[u] \in {"open", "load", "predict"}
           predictions == model_predict_call(model[w], X(args[v]))
       IN  IF predictions.exc # "none"
           THEN /\ Complete(w, Failure(predictions.exc))
                /\ last' = "fail"
           ELSE /\ Complete(w, Json200(json_dumps(int(predictions.val[1]))))
                /\ last' = model[w]
    /\ UNCHANGED <<disk, req, args, f, model, opens, loads, seen, flask>>

\* X, model.predict(X), int(predictions[0]), json.dumps(result)
model_predict(w) ==
    /\ pc[w] = "predict"
    /\ LET predictions == model_predict_call(model[w], X(args[w])) IN
       IF predictions.exc # "none"
       THEN /\ Complete(w, Failure(predictions.exc))
            /\ last' = "fail"
       ELSE /\ Complete(w, Json200(json_dumps(int(predictions.val[1]))))
            /\ last' = model[w]
    /\ UNCHANGED <<disk, req, args, f, model, opens, loads, seen, flask>>

\* the response is sent; the request and the locals of the handler are gone
finish(w) ==
    /\ pc[w] = "done"
    /\ pc' = [pc EXCEPT ![w] = "idle"]
    /\ req' = [req EXCEPT ![w] = NoReq]
    /\ args' = [args EXCEPT ![w] = NoArgs]
    /\ model' = [model EXCEPT ![w] = "none"]
    /\ resp' = [resp EXCEPT ![w] = NoResp]
    /\ opens' = [opens EXCEPT ![w] = 0]
    /\ loads' = [loads EXCEPT ![w] = 0]
    /\ seen' = [seen EXCEPT ![w] = "untouched"]
    /\ UNCHANGED <<disk, f, last, flask>>

\* the environment deploys, breaks or removes "model.pkl"
write_artifact(d) ==
    /\ d # disk
    /\ disk' = d
    /\ UNCHANGED <<pc, req, args, f, model, resp, opens, loads, seen, last, flask>>

\* ---------------------------------------------------------- specifications
\* one synchronous worker, every request body of the bounded family
Next ==
    \/ pc[1] = "idle" /\ \E body \in IndexBodies : index(1, body)
    \/ pc[1] = "idle" /\ \E body \in Bodies : predict(1, body)
    \/ open_model(1)
    \/ joblib_load(1)
    \/ model_predict(1)
    \/ finish(1)
    \/ \E d \in DiskStates : write_artifact(d)

Spec == Init /\ [][Next]_vars

\* NumWorkers threads, one request body of each shape
NextThreaded ==
    \/ \E w \in Workers, body \in IndexBodies : index(w, body)
    \/ \E w \in Workers, body \in ThreadedBodies : predict(w, body)
    \/ \E w \in Workers : open_model(w)
    \/ \E w \in Workers : joblib_load(w)
    \/ \E w \in Workers : model_predict(w)
    \/ \E w \in Workers : finish(w)
    \/ \E d \in DiskStates : write_artifact(d)

SpecThreaded == Init /\ [][NextThreaded]_vars

\* ------------------------------------------------------ reading a request
\* What a client put in its request, read off the body as it was sent.
Done(w) == pc[w] = "done"
IsPredict(w) == req[w].route = "/predict"
IsIndex(w) == req[w].route = "/"

IsObject(body) == body.kind = "json" /\ body.doc.t = "obj"
KeysOf(body) == {body.doc.o[i][1] : i \in 1..Len(body.doc.o)}
\* the object names exactly the four fields (each at least once)
FourFields(body) == IsObject(body) /\ KeysOf(body) = ParamSet
\* the object names exactly the four fields, each once
ExactlyFour(body) == FourFields(body) /\ Len(body.doc.o) = Len(Params)
FieldOf(body, k) == body.doc.o[CHOOSE i \in 1..Len(body.doc.o) : body.doc.o[i][1] = k][2]
AllNumeric(body) == \A i \in 1..Len(body.doc.o) : body.doc.o[i][2].t = "num"
\* the feature vector of the request, in the order of the specification
FeatureVector(body) ==
    <<FieldOf(body, "sepal_length"), FieldOf(body, "sepal_width"),
      FieldOf(body, "petal_length"), FieldOf(body, "petal_width")>>

\* the two error kinds of the specification, as the exceptions of the code
MalformedRequest(r) ==
    r.status # 200 /\ r.error \in {"BadRequest", "UnsupportedMediaType", "TypeError"}
ArtifactUnavailable(r) ==
    r.status # 200 /\ r.error \in {"FileNotFoundError", "UnpicklingError"}
\* a response {"predicted_class": <integer>} and nothing else
PredictedClass(r) ==
    /\ r.status = 200
    /\ r.json.t = "obj"
    /\ Len(r.json.o) = 1
    /\ r.json.o[1][1] = "predicted_class"
    /\ r.json.o[1][2].t = "num"

\* ------------------------------------------------------------------ claims
\* C1: a predict request whose body is a JSON object of exactly the four
\* fields, all numbers, handled while the artifact is loadable, is answered
\* with {"predicted_class": n} where n is the first label the predictor found
\* on disk returns for the one-row batch [sepal_length, sepal_width,
\* petal_length, petal_width], whatever the order of the keys in the request.
C1_PredictReturnsFirstLabel ==
    \A w \in Workers :
        (/\ Done(w) /\ IsPredict(w)
         /\ ExactlyFour(req[w].body) /\ AllNumeric(req[w].body)
         /\ seen[w] \in PredictorIds)
        => /\ PredictedClass(resp[w])
           /\ LET labels == model_predict_call(seen[w], <<FeatureVector(req[w].body)>>)
              IN  labels.exc = "none" /\ resp[w].json.o[1][2].v = labels.val[1].v

\* the request lists the keys in another order than the signature and the
\* first and last fields differ
C1_Witness ==
    \E w \in Workers :
        /\ Done(w) /\ IsPredict(w)
        /\ ExactlyFour(req[w].body) /\ AllNumeric(req[w].body)
        /\ seen[w] \in PredictorIds
        /\ resp[w].status = 200
        /\ req[w].body.doc.o[1][1] = "petal_width"
        /\ FieldOf(req[w].body, "sepal_length") # FieldOf(req[w].body, "petal_width")

\* C2: a predict request whose JSON object omits one of the four fields, or
\* holds a field other than those four, fails with MalformedRequest: the
\* handler ends at the binding, no argument is bound (nothing defaulted,
\* nothing ignored) and no predicted_class response is produced.
WrongFields(body) == IsObject(body) /\ KeysOf(body) # ParamSet

C2_WrongFieldsAreMalformed ==
    \A w \in Workers :
        (IsPredict(w) /\ WrongFields(req[w].body))
        => /\ Done(w)
           /\ MalformedRequest(resp[w])
           /\ resp[w].error = "TypeError"
           /\ resp[w].json = Null
           /\ DOMAIN args[w] = {}

\* all four fields and one unknown field
C2_Witness ==
    \E w \in Workers :
        /\ Done(w) /\ IsPredict(w)
        /\ IsObject(req[w].body)
        /\ KeysOf(req[w].body) = AllKeys
        /\ resp[w].error = "TypeError"

\* C3: a predict request that binds (its object names exactly the four
\* fields) and finds the artifact absent or malformed fails with
\* ArtifactUnavailable after one open(): no second attempt, no predictor, no
\* predicted_class response.
C3_NoArtifactNoPrediction ==
    \A w \in Workers :
        (Done(w) /\ IsPredict(w) /\ FourFields(req[w].body))
        => /\ opens[w] = 1
           /\ seen[w] # "untouched"
           /\ seen[w] \in {"absent", "corrupt"}
              => /\ ArtifactUnavailable(resp[w])
                 /\ resp[w].json = Null
                 /\ model[w] = "none"

C3_Witness ==
    \E w \in Workers :
        /\ Done(w) /\ IsPredict(w) /\ FourFields(req[w].body)
        /\ seen[w] = "absent"
        /\ disk = "absent"
        /\ resp[w].error = "FileNotFoundError"

\* C6 (as claimed): a predict request that names the four fields and gives one
\* of them a value that is not a number never gets a predicted_class response.
C6_NonNumericIsRejected ==
    \A w \in Workers :
        (/\ Done(w) /\ IsPredict(w)
         /\ FourFields(req[w].body) /\ ~AllNumeric(req[w].body))
        => /\ resp[w].status # 200
           /\ resp[w].json = Null

\* C7: the artifact is read anew by every predict request that binds: one
\* open(), one joblib.load() of what open() found, and a response that is a
\* function of the request and of what open() found on disk, whatever earlier
\* requests loaded.
ResponseFor(body, content) ==
    CASE content = "absent" -> Failure("FileNotFoundError")
      [] content = "corrupt" -> Failure("UnpicklingError")
      [] OTHER ->
            LET labels == model_predict_call(content, <<FeatureVector(body)>>) IN
            IF labels.exc # "none" THEN Failure(labels.exc)
            ELSE Json200(Obj(<< <<"predicted_class", Num(labels.val[1].v)>> >>))

C7_LoadedFreshPerRequest ==
    \A w \in Workers :
        /\ (pc[w] = "load") => (opens[w] = 1 /\ loads[w] = 0 /\ f[w] = seen[w])
        /\ (pc[w] = "predict") => (opens[w] = 1 /\ loads[w] = 1 /\ model[w] = seen[w])
        /\ (Done(w) /\ IsPredict(w) /\ ExactlyFour(req[w].body))
           => /\ opens[w] = 1
              /\ loads[w] = (IF seen[w] = "absent" THEN 0 ELSE 1)
              /\ resp[w] = ResponseFor(req[w].body, seen[w])

\* the file was replaced between two requests: the earlier used "p1", the
\* later has loaded "p2"
C7_Witness ==
    \E w \in Workers :
        /\ pc[w] = "predict"
        /\ last = "p1"
        /\ model[w] = "p2"
        /\ disk = "p2"

\* C10: a request that cannot be bound (no body, no JSON, no object, a missing
\* or an unknown field) fails with MalformedRequest without the artifact ever
\* being opened, also when the artifact is absent; and every finished predict
\* request holds either exactly one predicted_class or a failure without body.
Unbindable(body) == ~FourFields(body)

C10_MalformedBeforeArtifact ==
    \A w \in Workers :
        /\ (IsPredict(w) /\ Unbindable(req[w].body))
           => /\ Done(w)
              /\ MalformedRequest(resp[w])
              /\ opens[w] = 0 /\ loads[w] = 0
              /\ seen[w] = "untouched"
        /\ (Done(w) /\ IsPredict(w))
           => \/ PredictedClass(resp[w])
              \/ resp[w].status # 200 /\ resp[w].error # "none" /\ resp[w].json = Null

C10_Witness ==
    \E w \in Workers :
        /\ Done(w) /\ IsPredict(w)
        /\ IsObject(req[w].body)
        /\ ExtraKey \in KeysOf(req[w].body)
        /\ disk = "absent"
        /\ resp[w].error = "TypeError"

\* C4: every request to the index endpoint is answered at once with the same
\* text and status 200, whatever its body, whatever the artifact file and
\* whatever the predict requests before it or beside it did.
C4_IndexAlwaysAcknowledges ==
    \A w \in Workers :
        IsIndex(w) => /\ Done(w)
                      /\ resp[w] = Text200("Hello, world!")
                      /\ opens[w] = 0

\* an index request with a body, answered while the artifact is absent and
\* another worker's predict request has failed on it
C4_Witness ==
    \E w, u \in Workers :
        /\ IsIndex(w) /\ Done(w)
        /\ req[w].body # NoBody
        /\ disk = "absent"
        /\ IsPredict(u) /\ Done(u) /\ resp[u].error = "FileNotFoundError"

\* C5: two finished predict requests with the same body that found the same
\* artifact on disk hold the same response, whatever was handled between them.
C5_SameRequestSameResponse ==
    \A w, u \in Workers :
        (/\ Done(w) /\ Done(u)
         /\ IsPredict(w) /\ IsPredict(u)
         /\ req[w].body = req[u].body
         /\ seen[w] = seen[u])
        => resp[w] = resp[u]

\* the same well-formed request answered twice from the same artifact, after
\* the artifact on disk has changed again
C5_Witness ==
    \E w, u \in Workers :
        /\ w # u
        /\ Done(w) /\ Done(u)
        /\ IsPredict(w) /\ IsPredict(u)
        /\ req[w].body = req[u].body
        /\ seen[w] = seen[u]
        /\ seen[w] \in PredictorIds
        /\ resp[w].status = 200
        /\ disk # seen[w]

\* C8: the file handle is open only between open() and the end of the `with`
\* block: it is closed before the predictor is invoked and after the request
\* has finished, also when joblib.load() raised.
C8_HandleReleased ==
    \A w \in Workers : (f[w] # "closed") => (pc[w] = "load")

\* joblib.load() has raised in one worker while another holds the file open
C8_Witness ==
    \E w, u \in Workers :
        /\ Done(w) /\ resp[w].error = "UnpicklingError"
        /\ f[w] = "closed"
        /\ pc[u] = "load"

\* C9: requests handled concurrently do not interfere.  The response of every
\* finished request is the one the same request gets when handled alone on
\* what it found on disk; a handler in flight can always take its next step;
\* and a step of one worker leaves every other worker's request, locals and
\* response as they were.
Alone(r, content) ==
    IF r.route = "/" THEN Text200("Hello, world!")
    ELSE IF ~FourFields(r.body)
         THEN Failure(IF r.body.kind \in {"none", "notjson"} /\ flask # "legacy"
                      THEN "UnsupportedMediaType"
                      ELSE IF r.body.kind = "invalid" THEN "BadRequest" ELSE "TypeError")
         ELSE ResponseFor(r.body, content)

Frame(w) == <<pc[w], req[w], args[w], f[w], model[w], resp[w], opens[w], loads[w], seen[w]>>

C9_Isolated ==
    \A w \in Workers :
        /\ Done(w) =>
              IF seen[w] = "untouched"
              THEN \A d \in DiskStates : resp[w] = Alone(req[w], d)
              ELSE resp[w] = Alone(req[w], seen[w])
        /\ (pc[w] = "open") => ENABLED open_model(w)
        /\ (pc[w] = "load") => ENABLED joblib_load(w)
        /\ (pc[w] = "predict") => ENABLED model_predict(w)
        /\ (pc[w] = "done") => ENABLED finish(w)

C9_NoSharedWrites ==
    \A w, u \in Workers : (w # u /\ Frame(w)' # Frame(w)) => (Frame(u)' = Frame(u))

C9_ConcurrentRequestsIndependent == [](C9_Isolated) /\ [][C9_NoSharedWrites]_vars

\* two predict requests with different vectors were in flight together and
\* both are answered
C9_Witness ==
    \E w, u \in Workers :
        /\ w # u
        /\ IsPredict(w) /\ Done(w) /\ resp[w].status = 200
        /\ IsPredict(u) /\ pc[u] = "predict"
        /\ args[w] # args[u]
        /\ seen[w] # seen[u]

====
